---- MODULE Spec2Model ----
(***************************************************************************)
(* Model of upgrade.py: the update agent's main(), the workflow            *)
(* run_update_workflow and the methods it calls.  The program is           *)
(* single-threaded; a state of the model is a point where the program is   *)
(* blocked in an external call (subprocess.run, time.sleep, llm.invoke),   *)
(* and an action is everything the code does from the return of that call  *)
(* to the next external call or to the exit of the process.                *)
(* Texts are TLA+ strings, handled with Len, SubSeq and \o as the Python   *)
(* code handles them with len, slices and +.                               *)
(***************************************************************************)
EXTENDS Integers, Sequences, FiniteSets, TLC

\* ------------------------------------------------------------------ bounds
\* exit codes a command may return are 0..MaxExitCode
MaxExitCode == 1
\* a command that overruns the timeout runs TIMEOUT+1 .. TIMEOUT+MaxOverrun s
MaxOverrun == 1

\* --------------------------------------------------------------- constants
PLACEHOLDER == "your-api-key-here"
LOG_FILE == "/var/log/llm_update_agent.log"
SNAPSHOT_NAME == "pre_update_YYYYmmdd_HHMMSS"
TIMEOUT == 600
SENTINEL == -1
STABILIZE_SECONDS == 30
ROOT_UID == 0
MARKER == "HEALTH_STATUS: HEALTHY"
NONE_SENTINEL == "None"
\* the prefix line 158 tests with startswith: the two characters U+00E2 U+2014
\* of the source literal, written here with two ASCII stand-ins
SKIP_PREFIX == "^~"
\* the bullet U+25CF that systemctl prints before a failed unit (stand-in)
BULLET == "*"
\* strftime("%Y-%m-%d %H:%M:%S") of the time of the call, in brackets
TIMESTAMP == "[YYYY-mm-dd HH:MM:SS]"

CMD_WHICH == "which timeshift"
CMD_CREATE == "sudo timeshift --create --comments '" \o SNAPSHOT_NAME \o "' --scripted"
CMD_BACKUP == "dpkg --get-selections > /tmp/package_list_" \o SNAPSHOT_NAME \o ".txt"
CMD_UPDATE == "sudo apt update"
CMD_UPGRADE == "sudo DEBIAN_FRONTEND=noninteractive apt upgrade -y"
CMD_FULL == "sudo DEBIAN_FRONTEND=noninteractive apt full-upgrade -y"
CMD_AUTOREMOVE == "sudo apt autoremove -y"
CMD_AUTOCLEAN == "sudo apt autoclean"
CMD_OS == "lsb_release -d"
CMD_KERNEL == "uname -r"
CMD_DISK == "df -h / | tail -1"
CMD_MEMORY == "free -h | grep Mem"
CMD_RUNNING == "systemctl list-units --type=service --state=running --no-pager"
CMD_FAILED == "systemctl list-units --type=service --state=failed --no-pager"
CMD_BROKEN == "dpkg -l | grep -E '^.[^i]'"
CMD_NETWORK == "ping -c 2 8.8.8.8"
CMD_RESTORE == "sudo timeshift --restore --snapshot-device /dev/sda1 --scripted"
CMD_REINSTALL == "sudo apt install --reinstall $(cat /tmp/package_list_*.txt | awk '{print $1}')"

\* ------------------------------------------------------------ text helpers
Char(s, i) == SubSeq(s, i, i)

IsSpace(c) == c \in {" ", "\n", "\t"}

RECURSIVE LStrip(_)
LStrip(s) ==
  IF Len(s) > 0 /\ IsSpace(Char(s, 1)) THEN LStrip(SubSeq(s, 2, Len(s))) ELSE s

RECURSIVE RStrip(_)
RStrip(s) ==
  IF Len(s) > 0 /\ IsSpace(Char(s, Len(s))) THEN RStrip(SubSeq(s, 1, Len(s) - 1)) ELSE s

\* str.strip()
Strip(s) == RStrip(LStrip(s))

\* index of the first newline of s, 0 if none
FirstNewline(s) ==
  IF \E i \in 1..Len(s) : Char(s, i) = "\n"
  THEN CHOOSE i \in 1..Len(s) :
         Char(s, i) = "\n" /\ \A j \in 1..(i - 1) : Char(s, j) # "\n"
  ELSE 0

\* str.split('\n')
RECURSIVE SplitLines(_)
SplitLines(s) ==
  LET i == FirstNewline(s)
  IN  IF i = 0 THEN <<s>>
      ELSE <<SubSeq(s, 1, i - 1)>> \o SplitLines(SubSeq(s, i + 1, Len(s)))

\* index of the first whitespace character of s, 0 if none
FirstSpace(s) ==
  IF \E i \in 1..Len(s) : IsSpace(Char(s, i))
  THEN CHOOSE i \in 1..Len(s) :
         IsSpace(Char(s, i)) /\ \A j \in 1..(i - 1) : ~IsSpace(Char(s, j))
  ELSE 0

\* str.split()[0], for a line that is not blank
FirstWord(line) ==
  LET t == LStrip(line)
      i == FirstSpace(t)
  IN  IF i = 0 THEN t ELSE SubSeq(t, 1, i - 1)

\* str.startswith(prefix)
StartsWith(s, prefix) ==
  Len(s) >= Len(prefix) /\ SubSeq(s, 1, Len(prefix)) = prefix

\* the Python test `sub in s`
Contains(sub, s) ==
  \E i \in 1..(Len(s) - Len(sub) + 1) : SubSeq(s, i, i + Len(sub) - 1) = sub

LOWER == "abcdefghijklmnopqrstuvwxyz"
UPPER == "ABCDEFGHIJKLMNOPQRSTUVWXYZ"

UpperTable ==
  [c \in {Char(LOWER, i) : i \in 1..Len(LOWER)} |->
     Char(UPPER, CHOOSE i \in 1..Len(LOWER) : Char(LOWER, i) = c)]

UpperChar(c) == IF c \in DOMAIN UpperTable THEN UpperTable[c] ELSE c

\* str.upper()
RECURSIVE Upper(_)
Upper(s) ==
  IF Len(s) = 0 THEN s ELSE UpperChar(Char(s, 1)) \o Upper(SubSeq(s, 2, Len(s)))

\* an optional value: {} when not set, {v} when set to v
None == {}
Some(v) == {v}

\* ------------------------------------------------------------------- state
VARIABLES
  pc,               \* where the process is blocked, "start" or "exited"
  euid,             \* os.geteuid()
  environ_key,      \* the environment's ANTHROPIC_API_KEY: None if unset
  log_writable,     \* whether LOG_FILE can be opened for appending
  agent,            \* TRUE once SystemUpdateAgent (and its llm) is constructed
  snapshot_created, \* self.snapshot_created
  update_log,       \* self.update_log
  log_file,         \* the lines of LOG_FILE written by this process
  executed,         \* the commands handed to subprocess.run, in order
  lastOut,          \* what the last command did (the environment's answer)
  lastRet,          \* what the last run_command call returned
  returned,         \* exit code returned at each call site the code tests
  phase,            \* "pre" or "post": which collect_system_info is running
  info,             \* the dict collect_system_info is filling
  create_ret,       \* what create_snapshot returned
  update_success,   \* what update_system returned
  slept,            \* seconds spent in time.sleep
  llm_calls,        \* number of llm.invoke calls
  llm_reply,        \* what llm.invoke did
  is_healthy,       \* the verdict of perform_health_checks
  analysis,         \* the report of perform_health_checks
  rollback_calls,   \* number of rollback_system calls
  rollback_ret,     \* what rollback_system returned
  wf_result,        \* what run_update_workflow returned
  caught,           \* the exception main caught, None if none
  exit_code         \* the exit code of the process, None while it runs

vars == <<pc, euid, environ_key, log_writable, agent, snapshot_created,
          update_log, log_file, executed, lastOut, lastRet, returned, phase,
          info, create_ret, update_success, slept, llm_calls, llm_reply,
          is_healthy, analysis, rollback_calls, rollback_ret, wf_result,
          caught, exit_code>>

\* ------------------------------------------------- call sites and commands
\* the command run_command is given at each call site
CmdAt(site) ==
  CASE site = "snap_which"      -> CMD_WHICH
    [] site = "snap_create"     -> CMD_CREATE
    [] site = "snap_backup"     -> CMD_BACKUP
    [] site = "probe_os"        -> CMD_OS
    [] site = "probe_kernel"    -> CMD_KERNEL
    [] site = "probe_disk"      -> CMD_DISK
    [] site = "probe_memory"    -> CMD_MEMORY
    [] site = "probe_running"   -> CMD_RUNNING
    [] site = "probe_failed"    -> CMD_FAILED
    [] site = "probe_broken"    -> CMD_BROKEN
    [] site = "probe_network"   -> CMD_NETWORK
    [] site = "upd_update"      -> CMD_UPDATE
    [] site = "upd_upgrade"     -> CMD_UPGRADE
    [] site = "upd_full"        -> CMD_FULL
    [] site = "upd_autoremove"  -> CMD_AUTOREMOVE
    [] site = "upd_autoclean"   -> CMD_AUTOCLEAN
    [] site = "rb_which"        -> CMD_WHICH
    [] site = "rb_restore"      -> CMD_RESTORE
    [] site = "rb_reinstall"    -> CMD_REINSTALL

ProbeSites == {"probe_os", "probe_kernel", "probe_disk", "probe_memory",
               "probe_running", "probe_failed", "probe_broken", "probe_network"}

\* the call sites whose exit code the code tests to choose its path
CheckedSites == {"snap_which", "snap_create", "snap_backup",
                 "upd_update", "upd_upgrade", "upd_full",
                 "rb_which", "rb_restore", "rb_reinstall"}

CommandSites == CheckedSites \cup ProbeSites \cup {"upd_autoremove", "upd_autoclean"}

\* every point inside agent.run_update_workflow() where the process blocks
WorkflowSites == CommandSites \cup {"sleep", "llm"}

\* ------------------------------------------------------------- environment
ExitCodes == 0..MaxExitCode

STDERR_TEXT == "E: failed"
SPAWN_ERROR == "[Errno 12] Cannot allocate memory"

\* what the command at a call site may print on its standard output
StdoutsAt(site) ==
  CASE site = "probe_os"      -> {"Description:\tUbuntu 22.04\n"}
    [] site = "probe_kernel"  -> {"6.8.0\n"}
    [] site = "probe_disk"    -> {"/dev/sda1 40G 9G 29G 24% /\n"}
    [] site = "probe_memory"  -> {"Mem: 7.7Gi 1.2Gi\n"}
    [] site = "probe_running" -> {"  UNIT LOAD\n  a.service loaded\n  b.service loaded\n\n2 loaded units listed.\n"}
    [] site = "probe_failed"  ->
         {"",
          "  UNIT LOAD ACTIVE SUB\n\n0 loaded units listed.\n",
          "  UNIT LOAD ACTIVE SUB\n" \o BULLET \o " a.service loaded failed failed\n\n1 loaded units listed.\n"}
    [] site = "probe_broken"  ->
         {"",
          "rc  foo  1.0  all  a library\n",
          "rc  foo  1.0  all  None such library\n"}
    [] OTHER -> {""}

\* what may happen to a command handed to subprocess.run: it is not launched
\* (an OSError), it overruns the timeout and is killed, or it ends with an
\* exit code after printing its output
Faults(site) ==
  {[launched |-> FALSE, dur |-> 0, code |-> 0, out |-> "", err |-> ""]}
  \cup {[launched |-> TRUE, dur |-> TIMEOUT + k, code |-> 0, out |-> o, err |-> ""] :
          k \in 1..MaxOverrun, o \in StdoutsAt(site)}

\* The eight probes are short read-only queries: they end with an exit code.
\* The commands that change the system may also hang or fail to start.
Outcomes(site) ==
  (IF site \in ProbeSites THEN {} ELSE Faults(site))
  \cup {[launched |-> TRUE, dur |-> 1, code |-> c, out |-> o,
         err |-> IF c = 0 THEN "" ELSE STDERR_TEXT] :
          c \in ExitCodes, o \in StdoutsAt(site)}

\* the underlying command succeeded
Succeeded(o) == o.launched /\ o.dur <= TIMEOUT /\ o.code = 0

\* what llm.invoke may do: raise, or return a message whose content is a text
LlmReplies ==
  {[ok |-> FALSE, content |-> "Connection error."]}
  \cup {[ok |-> TRUE, content |-> c] :
          c \in {"1. HEALTH_STATUS: HEALTHY\n2. ISSUES: None\n3. RECOMMENDATION: none",
                 "1. Health_Status: Healthy\n2. Issues: None",
                 "1. HEALTH_STATUS: UNHEALTHY\n2. ISSUES: ping failed",
                 "The system is healthy."}}

\* --------------------------------------------------------------------- log
\* the entry log(message) builds
log_entry(message) == TIMESTAMP \o " " \o message

RECURSIVE FileLines(_)
\* the lines that writing each entry followed by "\n" adds to the file
FileLines(entries) ==
  IF entries = <<>> THEN <<>>
  ELSE SplitLines(Head(entries)) \o FileLines(Tail(entries))

\* log(m) for each message m of msgs, in order
Log(msgs) ==
  LET entries == [i \in 1..Len(msgs) |-> log_entry(msgs[i])]
  IN  /\ update_log' = update_log \o entries
      /\ log_file' = IF log_writable THEN log_file \o FileLines(entries) ELSE log_file

\* ------------------------------------------------------------- run_command
\* a run_command that forgets the timeout
run_command_no_timeout(o) ==
  IF ~o.launched
  THEN [code |-> SENTINEL, out |-> "", err |-> SPAWN_ERROR]
  ELSE [code |-> o.code, out |-> o.out, err |-> o.err]

\* what run_command returns when the command did o
run_command(o) ==
  IF ~o.launched
  THEN [code |-> SENTINEL, out |-> "", err |-> SPAWN_ERROR]
  ELSE IF o.dur > TIMEOUT
  THEN [code |-> SENTINEL, out |-> "", err |-> "Command timeout"]
  ELSE [code |-> o.code, out |-> o.out, err |-> o.err]

\* what run_command logs after subprocess.run ended
run_command_logs(o) ==
  IF ~o.launched
  THEN <<"Command execution error: " \o SPAWN_ERROR>>
  ELSE IF o.dur > TIMEOUT
  THEN <<"Command timed out after 600 seconds">>
  ELSE <<>>

\* an entry that names only the program of the command
ExecutingProgramOnly(site) == <<"Executing: " \o FirstWord(CmdAt(site))>>

\* the entry of run_command at a call site: the command is logged
Executing(site) == <<"Executing: " \o CmdAt(site)>>

\* The return of subprocess.run at the current call site with outcome o, the
\* messages `after` the code logs next, and the next blocking point.
Finish(o, after, next) ==
  /\ executed' = Append(executed, CmdAt(pc))
  /\ lastOut' = Some(o)
  /\ lastRet' = Some(run_command(o))
  /\ returned' = IF pc \in CheckedSites
                 THEN [returned EXCEPT ![pc] = Some(run_command(o).code)]
                 ELSE returned
  /\ Log(run_command_logs(o) \o after
         \o (IF next \in CommandSites THEN Executing(next) ELSE <<>>))
  /\ pc' = next

\* the process ends with this exit code
Exit(code) == exit_code' = Some(code)

\* os.getenv("ANTHROPIC_API_KEY", "your-api-key-here")
ANTHROPIC_API_KEY ==
  IF environ_key = None THEN PLACEHOLDER ELSE CHOOSE v \in environ_key : TRUE

\* -------------------------------------------------------------------- Init
Init ==
  /\ pc = "start"
  /\ euid \in {ROOT_UID, ROOT_UID + 1000}
  /\ environ_key \in {None, Some(PLACEHOLDER), Some("sk-ant-key")}
  /\ log_writable \in BOOLEAN
  /\ agent = FALSE
  /\ snapshot_created = FALSE
  /\ update_log = <<>>
  /\ log_file = <<>>
  /\ executed = <<>>
  /\ lastOut = None
  /\ lastRet = None
  /\ returned = [s \in CheckedSites |-> None]
  /\ phase = "pre"
  /\ info = <<>>
  /\ create_ret = None
  /\ update_success = None
  /\ slept = 0
  /\ llm_calls = 0
  /\ llm_reply = None
  /\ is_healthy = None
  /\ analysis = None
  /\ rollback_calls = 0
  /\ rollback_ret = None
  /\ wf_result = None
  /\ caught = None
  /\ exit_code = None

BANNER == "============================================================"

\* ------------------------------------------------------------------ main()
\* a check that only looks at the user id
MissingPreconditionRootOnly == euid # ROOT_UID

\* the two checks of main: not root, or the key left at the placeholder
MissingPrecondition == euid # ROOT_UID \/ ANTHROPIC_API_KEY = PLACEHOLDER

\* main up to the first command of run_update_workflow: the two checks, the
\* construction of the agent, the banner and the entry of create_snapshot
Main ==
  /\ pc = "start"
  /\ IF MissingPrecondition
     THEN \* main returns: the interpreter ends with exit code 0
          /\ pc' = "exited"
          /\ Exit(0)
          /\ UNCHANGED <<agent, update_log, log_file>>
     ELSE /\ agent' = TRUE
          /\ Log(<<BANNER, "Ubuntu VM Update Agent Starting", BANNER,
                   "Creating system snapshot...">> \o Executing("snap_which"))
          /\ pc' = "snap_which"
          /\ UNCHANGED exit_code
  /\ UNCHANGED <<euid, environ_key, log_writable, snapshot_created, executed,
                 lastOut, lastRet, returned, phase, info, create_ret,
                 update_success, slept, llm_calls, llm_reply, is_healthy,
                 analysis, rollback_calls, rollback_ret, wf_result, caught>>

\* the variables Finish and Log leave to the action that uses them
others == <<agent, snapshot_created, phase, info, create_ret, update_success,
            slept, llm_calls, llm_reply, is_healthy, analysis, rollback_calls,
            rollback_ret, wf_result, caught, exit_code>>

inputs == <<euid, environ_key, log_writable>>

\* --------------------------------------------------------- create_snapshot
\* a test that takes the sentinel of a timeout for success
CommandOkLenient(code) == code <= 0

\* the test `code == 0` of lines 70, 74, 86, 225 and 230
CommandOk(code) == code = 0

\* run_update_workflow from the return of create_snapshot (with value made)
\* to the first probe of collect_system_info
AfterSnapshot(made) ==
  (IF made THEN <<>> ELSE <<"WARNING: Proceeding without snapshot (risky)">>)
  \o <<"Collecting pre-update system state...">>

\* `which timeshift` returns in create_snapshot
SnapWhich ==
  /\ pc = "snap_which"
  /\ \E o \in Outcomes(pc) :
       IF CommandOk(run_command(o).code)
       THEN Finish(o, <<>>, "snap_create")
       ELSE Finish(o, <<"Timeshift not available, creating package list backup">>,
                   "snap_backup")
  /\ UNCHANGED others
  /\ UNCHANGED inputs

\* the timeshift --create command returns
SnapCreate ==
  /\ pc = "snap_create"
  /\ \E o \in Outcomes(pc) :
       IF CommandOk(run_command(o).code)
       THEN /\ snapshot_created' = TRUE
            /\ create_ret' = Some(TRUE)
            /\ Finish(o, <<"Snapshot created successfully">> \o AfterSnapshot(TRUE),
                      "probe_os")
       ELSE /\ Finish(o, <<"Timeshift snapshot failed: " \o run_command(o).err,
                           "Timeshift not available, creating package list backup">>,
                      "snap_backup")
            /\ UNCHANGED <<snapshot_created, create_ret>>
  /\ UNCHANGED <<agent, phase, info, update_success, slept, llm_calls, llm_reply,
                 is_healthy, analysis, rollback_calls, rollback_ret, wf_result,
                 caught, exit_code>>
  /\ UNCHANGED inputs

\* a create_snapshot whose failure ends the run
SnapBackupHalts ==
  /\ pc = "snap_backup"
  /\ \E o \in Outcomes(pc) :
       IF CommandOk(run_command(o).code)
       THEN /\ snapshot_created' = TRUE
            /\ create_ret' = Some(TRUE)
            /\ Finish(o, <<"Package list backup created">> \o AfterSnapshot(TRUE),
                      "probe_os")
            /\ UNCHANGED exit_code
       ELSE /\ create_ret' = Some(FALSE)
            /\ Finish(o, <<"WARNING: Could not create snapshot or backup">>, "exited")
            /\ Exit(1)
            /\ UNCHANGED snapshot_created
  /\ UNCHANGED <<agent, phase, info, update_success, slept, llm_calls, llm_reply,
                 is_healthy, analysis, rollback_calls, rollback_ret, wf_result,
                 caught>>
  /\ UNCHANGED inputs

\* the dpkg --get-selections backup command returns
SnapBackup ==
  /\ pc = "snap_backup"
  /\ \E o \in Outcomes(pc) :
       IF CommandOk(run_command(o).code)
       THEN /\ snapshot_created' = TRUE
            /\ create_ret' = Some(TRUE)
            /\ Finish(o, <<"Package list backup created">> \o AfterSnapshot(TRUE),
                      "probe_os")
       ELSE /\ create_ret' = Some(FALSE)
            /\ Finish(o, <<"WARNING: Could not create snapshot or backup">>
                         \o AfterSnapshot(FALSE), "probe_os")
            /\ UNCHANGED snapshot_created
  /\ UNCHANGED <<agent, phase, info, update_success, slept, llm_calls, llm_reply,
                 is_healthy, analysis, rollback_calls, rollback_ret, wf_result,
                 caught, exit_code>>
  /\ UNCHANGED inputs

\* ----------------------------------------------------- collect_system_info
INFO_KEYS == <<"os_version", "kernel", "disk_usage", "memory", "running_services",
               "failed_services", "broken_packages", "network">>

\* len(out.strip().split('\n')) - 2
RunningServices(out) == Len(SplitLines(Strip(out))) - 2

\* [line.split()[0] for line in failed if line.strip() and not line.startswith(..)]
RECURSIVE FailedNames(_)
FailedNames(lines) ==
  IF lines = <<>> THEN <<>>
  ELSE (IF Strip(Head(lines)) # "" /\ ~StartsWith(Head(lines), SKIP_PREFIX)
        THEN <<FirstWord(Head(lines))>> ELSE <<>>)
       \o FailedNames(Tail(lines))

FailedServices(out) == FailedNames(SplitLines(Strip(out)))

\* out.strip() if out.strip() else "None"
BrokenPackages(out) == IF Strip(out) # "" THEN Strip(out) ELSE NONE_SENTINEL

\* "OK" if code == 0 else "FAILED"
NetworkStatus(code) == IF code = 0 THEN "OK" ELSE "FAILED"

\* the value collect_system_info stores for the probe at a call site
InfoValue(site, r) ==
  CASE site = "probe_running" -> RunningServices(r.out)
    [] site = "probe_failed"  -> FailedServices(r.out)
    [] site = "probe_broken"  -> BrokenPackages(r.out)
    [] site = "probe_network" -> NetworkStatus(r.code)
    [] OTHER                  -> Strip(r.out)

InfoKey(site) ==
  CASE site = "probe_os"      -> "os_version"
    [] site = "probe_kernel"  -> "kernel"
    [] site = "probe_disk"    -> "disk_usage"
    [] site = "probe_memory"  -> "memory"
    [] site = "probe_running" -> "running_services"
    [] site = "probe_failed"  -> "failed_services"
    [] site = "probe_broken"  -> "broken_packages"
    [] site = "probe_network" -> "network"

NextProbe(site) ==
  CASE site = "probe_os"      -> "probe_kernel"
    [] site = "probe_kernel"  -> "probe_disk"
    [] site = "probe_disk"    -> "probe_memory"
    [] site = "probe_memory"  -> "probe_running"
    [] site = "probe_running" -> "probe_failed"
    [] site = "probe_failed"  -> "probe_broken"
    [] site = "probe_broken"  -> "probe_network"

RECURSIVE JsonLines(_)
JsonLines(keys) ==
  IF keys = <<>> THEN ""
  ELSE "\n  \"" \o Head(keys) \o "\": ..." \o JsonLines(Tail(keys))

\* json.dumps(d, indent=2): one line per key between the braces; the values
\* are elided
JsonDumps(d) ==
  "{" \o JsonLines(SelectSeq(INFO_KEYS, LAMBDA k : k \in DOMAIN d)) \o "\n}"

\* one of the first seven probes returns: its value is stored whatever its
\* exit code, and the next probe is started
Probe ==
  /\ pc \in ProbeSites \ {"probe_network"}
  /\ \E o \in Outcomes(pc) :
       /\ info' = (InfoKey(pc) :> InfoValue(pc, run_command(o))) @@ info
       /\ Finish(o, <<>>, NextProbe(pc))
  /\ UNCHANGED <<agent, snapshot_created, phase, create_ret, update_success,
                 slept, llm_calls, llm_reply, is_healthy, analysis,
                 rollback_calls, rollback_ret, wf_result, caught, exit_code>>
  /\ UNCHANGED inputs

\* the last probe of the pre-update collection returns: the info is logged
\* and update_system starts
ProbeNetworkPre ==
  /\ pc = "probe_network" /\ phase = "pre"
  /\ \E o \in Outcomes(pc) :
       LET d == (InfoKey(pc) :> InfoValue(pc, run_command(o))) @@ info
       IN  Finish(o, <<"Pre-update info: " \o JsonDumps(d),
                       "Starting system update process...",
                       "Updating package lists...">>, "upd_update")
  /\ info' = <<>>
  /\ UNCHANGED <<agent, snapshot_created, phase, create_ret, update_success,
                 slept, llm_calls, llm_reply, is_healthy, analysis,
                 rollback_calls, rollback_ret, wf_result, caught, exit_code>>
  /\ UNCHANGED inputs

\* the last probe of the post-update collection returns: the prompt is built
\* and llm.invoke is called
ProbeNetworkPost ==
  /\ pc = "probe_network" /\ phase = "post"
  /\ \E o \in Outcomes(pc) :
       /\ info' = (InfoKey(pc) :> InfoValue(pc, run_command(o))) @@ info
       /\ Finish(o, <<>>, "llm")
  /\ UNCHANGED <<agent, snapshot_created, phase, create_ret, update_success,
                 slept, llm_calls, llm_reply, is_healthy, analysis,
                 rollback_calls, rollback_ret, wf_result, caught, exit_code>>
  /\ UNCHANGED inputs

\* ----------------------------------------------------------- update_system
\* exit(0 if success else 1)
ExitStatus(success) == IF success THEN 0 ELSE 1

\* a rollback that does not look at the flag
RollbackAfterFailedUpdateAlways == TRUE

\* the test of line 265: rollback after a failed update needs the flag
RollbackAfterFailedUpdate == snapshot_created

\* a test that takes the sentinel of a timeout for success
StepFailedPositive(code) == code > 0

\* the test `code != 0` of lines 101, 110 and 119
StepFailed(code) == code # 0

\* a workflow that logs the failed update and goes on to the wait
UpdateFailedContinues(o, failure) ==
  /\ update_success' = Some(FALSE)
  /\ Finish(o, <<failure \o run_command(o).err, "ERROR: Update process failed",
                 "Waiting 30 seconds for system to stabilize...">>, "sleep")
  /\ UNCHANGED <<rollback_calls, wf_result, exit_code>>

\* a workflow that starts the update phase again when a step failed
UpdateFailedRetries(o, failure) ==
  /\ update_success' = Some(FALSE)
  /\ Finish(o, <<failure \o run_command(o).err, "ERROR: Update process failed",
                 "Starting system update process...", "Updating package lists...">>,
            "upd_update")
  /\ UNCHANGED <<rollback_calls, wf_result, exit_code>>

\* update_system returns False after logging failure: run_update_workflow
\* logs the error, calls rollback_system if the flag is set, and returns False
UpdateFailed(o, failure) ==
  /\ update_success' = Some(FALSE)
  /\ IF RollbackAfterFailedUpdate
     THEN /\ rollback_calls' = rollback_calls + 1
          /\ Finish(o, <<failure \o run_command(o).err, "ERROR: Update process failed",
                         "INITIATING ROLLBACK...">>, "rb_which")
          /\ UNCHANGED <<wf_result, exit_code>>
     ELSE /\ Finish(o, <<failure \o run_command(o).err, "ERROR: Update process failed">>,
                    "exited")
          /\ wf_result' = Some(FALSE)
          /\ Exit(ExitStatus(FALSE))
          /\ UNCHANGED rollback_calls

\* one of the three update steps returns at call site `site`
UpdateStep(site, failure, after, next) ==
  /\ pc = site
  /\ \E o \in Outcomes(pc) :
       IF StepFailed(run_command(o).code)
       THEN UpdateFailed(o, failure)
       ELSE /\ Finish(o, after, next)
            /\ UNCHANGED <<update_success, rollback_calls, wf_result, exit_code>>
  /\ UNCHANGED <<agent, snapshot_created, phase, info, create_ret, slept,
                 llm_calls, llm_reply, is_healthy, analysis, rollback_ret, caught>>
  /\ UNCHANGED inputs

UpdUpdate ==
  UpdateStep("upd_update", "Failed to update package lists: ",
             <<"Upgrading packages...">>, "upd_upgrade")

UpdUpgrade ==
  UpdateStep("upd_upgrade", "Package upgrade failed: ",
             <<"Performing full upgrade...">>, "upd_full")

UpdFull ==
  UpdateStep("upd_full", "Full upgrade failed: ", <<"Cleaning up...">>,
             "upd_autoremove")

\* apt autoremove returns: its result is dropped
UpdAutoremove ==
  /\ pc = "upd_autoremove"
  /\ \E o \in Outcomes(pc) : Finish(o, <<>>, "upd_autoclean")
  /\ UNCHANGED others
  /\ UNCHANGED inputs

\* apt autoclean returns: its result is dropped, update_system returns True
\* and run_update_workflow goes to sleep
UpdAutoclean ==
  /\ pc = "upd_autoclean"
  /\ \E o \in Outcomes(pc) :
       Finish(o, <<"System update completed",
                   "Waiting 30 seconds for system to stabilize...">>, "sleep")
  /\ update_success' = Some(TRUE)
  /\ UNCHANGED <<agent, snapshot_created, phase, info, create_ret, slept,
                 llm_calls, llm_reply, is_healthy, analysis, rollback_calls,
                 rollback_ret, wf_result, caught, exit_code>>
  /\ UNCHANGED inputs

\* a workflow that starts the health checks without waiting
SleepSkipped ==
  /\ pc = "sleep"
  /\ slept' = slept
  /\ phase' = "post"
  /\ info' = <<>>
  /\ Log(<<"Performing system health checks...">> \o Executing("probe_os"))
  /\ pc' = "probe_os"
  /\ UNCHANGED <<agent, snapshot_created, create_ret, update_success, llm_calls,
                 llm_reply, is_healthy, analysis, rollback_calls, rollback_ret,
                 wf_result, caught, exit_code>>
  /\ UNCHANGED <<executed, lastOut, lastRet, returned>>
  /\ UNCHANGED inputs

\* time.sleep(30) returns: perform_health_checks starts its collection
Sleep ==
  /\ pc = "sleep"
  /\ slept' = slept + STABILIZE_SECONDS
  /\ phase' = "post"
  /\ info' = <<>>
  /\ Log(<<"Performing system health checks...">> \o Executing("probe_os"))
  /\ pc' = "probe_os"
  /\ UNCHANGED <<agent, snapshot_created, create_ret, update_success, llm_calls,
                 llm_reply, is_healthy, analysis, rollback_calls, rollback_ret,
                 wf_result, caught, exit_code>>
  /\ UNCHANGED <<executed, lastOut, lastRet, returned>>
  /\ UNCHANGED inputs

\* --------------------------------------------------- perform_health_checks
\* a match that forgets to fold the case
LlmHealthyCaseSensitive(content) == Contains(MARKER, content)

\* "HEALTH_STATUS: HEALTHY" in analysis.upper()
LlmHealthy(content) == Contains(MARKER, Upper(content))

\* the fallback rule of lines 208-212
FallbackHealthy(d) ==
  /\ Len(d["failed_services"]) = 0
  /\ d["network"] = "OK"
  /\ Contains(NONE_SENTINEL, d["broken_packages"])

FALLBACK_REPORT == "Basic health check completed (LLM unavailable)"

\* the verdict and the report for the reply r of llm.invoke
HealthVerdict(r, d) ==
  IF r.ok THEN <<LlmHealthy(r.content), r.content>>
  ELSE <<FallbackHealthy(d), FALLBACK_REPORT>>

\* llm.invoke ends: the verdict is taken, and run_update_workflow ends with
\* success, or calls rollback_system
Llm ==
  /\ pc = "llm"
  /\ llm_calls' = llm_calls + 1
  /\ info' = <<>>
  /\ \E r \in LlmReplies :
       LET v == HealthVerdict(r, info)
           said == IF r.ok THEN "LLM Health Analysis:\n" \o r.content
                   ELSE "Error during LLM analysis: " \o r.content
       IN  /\ llm_reply' = Some(r)
           /\ is_healthy' = Some(v[1])
           /\ analysis' = Some(v[2])
           /\ IF v[1]
              THEN /\ Log(<<said, BANNER, "UPDATE SUCCESSFUL - System is healthy", BANNER>>)
                   /\ wf_result' = Some(TRUE)
                   /\ pc' = "exited"
                   /\ Exit(ExitStatus(TRUE))
                   /\ UNCHANGED <<rollback_calls, rollback_ret>>
              ELSE /\ rollback_calls' = rollback_calls + 1
                   /\ IF ~snapshot_created
                      THEN /\ Log(<<said, "ERROR: System health checks failed",
                                    "Analysis indicates problems, initiating rollback...",
                                    "INITIATING ROLLBACK...",
                                    "ERROR: No snapshot available for rollback">>)
                           /\ rollback_ret' = Some(FALSE)
                           /\ wf_result' = Some(FALSE)
                           /\ pc' = "exited"
                           /\ Exit(ExitStatus(FALSE))
                      ELSE /\ Log(<<said, "ERROR: System health checks failed",
                                    "Analysis indicates problems, initiating rollback...",
                                    "INITIATING ROLLBACK...">> \o Executing("rb_which"))
                           /\ pc' = "rb_which"
                           /\ UNCHANGED <<rollback_ret, wf_result, exit_code>>
  /\ UNCHANGED <<agent, snapshot_created, phase, create_ret, update_success,
                 slept, caught>>
  /\ UNCHANGED <<executed, lastOut, lastRet, returned>>
  /\ UNCHANGED inputs

\* --------------------------------------------------------- rollback_system
\* a workflow that reports what rollback_system returned
RollbackDonePropagated(o, after, restored) ==
  /\ Finish(o, after, "exited")
  /\ rollback_ret' = Some(restored)
  /\ wf_result' = Some(restored)
  /\ Exit(ExitStatus(restored))

\* rollback_system returns `restored`; run_update_workflow returns False
RollbackDone(o, after, restored) ==
  /\ Finish(o, after, "exited")
  /\ rollback_ret' = Some(restored)
  /\ wf_result' = Some(FALSE)
  /\ Exit(ExitStatus(FALSE))

\* `which timeshift` returns in rollback_system
RbWhich ==
  /\ pc = "rb_which"
  /\ \E o \in Outcomes(pc) :
       IF CommandOk(run_command(o).code)
       THEN Finish(o, <<"Restoring from timeshift snapshot...">>, "rb_restore")
       ELSE Finish(o, <<"Attempting package downgrade...">>, "rb_reinstall")
  /\ UNCHANGED others
  /\ UNCHANGED inputs

\* the timeshift --restore command returns
RbRestore ==
  /\ pc = "rb_restore"
  /\ \E o \in Outcomes(pc) :
       IF CommandOk(run_command(o).code)
       THEN RollbackDone(o, <<"Timeshift rollback successful">>, TRUE)
       ELSE /\ Finish(o, <<"Timeshift rollback failed: " \o run_command(o).err,
                           "Attempting package downgrade...">>, "rb_reinstall")
            /\ UNCHANGED <<rollback_ret, wf_result, exit_code>>
  /\ UNCHANGED <<agent, snapshot_created, phase, info, create_ret, update_success,
                 slept, llm_calls, llm_reply, is_healthy, analysis, rollback_calls,
                 caught>>
  /\ UNCHANGED inputs

\* a reinstall fallback that reports success whatever the command returned
RbReinstallReportsSuccess ==
  /\ pc = "rb_reinstall"
  /\ \E o \in Outcomes(pc) :
       RollbackDone(o, <<"Rollback process completed">>, TRUE)
  /\ UNCHANGED <<agent, snapshot_created, phase, info, create_ret, update_success,
                 slept, llm_calls, llm_reply, is_healthy, analysis, rollback_calls,
                 caught>>
  /\ UNCHANGED inputs

\* the apt install --reinstall command returns
RbReinstall ==
  /\ pc = "rb_reinstall"
  /\ \E o \in Outcomes(pc) :
       RollbackDone(o, <<"Rollback process completed">>, run_command(o).code = 0)
  /\ UNCHANGED <<agent, snapshot_created, phase, info, create_ret, update_success,
                 slept, llm_calls, llm_reply, is_healthy, analysis, rollback_calls,
                 caught>>
  /\ UNCHANGED inputs

\* ------------------------------------------------------ main()'s handlers
\* a top-level handler that starts the restore before the process ends
CaughtThenRestores(what, message) ==
  /\ pc \in WorkflowSites
  /\ caught = None
  /\ caught' = Some(what)
  /\ Log(<<message>> \o (IF snapshot_created THEN Executing("rb_which") ELSE <<>>))
  /\ pc' = IF snapshot_created THEN "rb_which" ELSE "exited"
  /\ exit_code' = IF snapshot_created THEN exit_code ELSE Some(1)
  /\ UNCHANGED <<agent, snapshot_created, phase, info, create_ret, update_success,
                 slept, llm_calls, llm_reply, is_healthy, analysis, rollback_calls,
                 rollback_ret, wf_result>>
  /\ UNCHANGED <<executed, lastOut, lastRet, returned>>
  /\ UNCHANGED inputs

\* an exception leaves run_update_workflow: main logs it and exits with 1
Caught(what, message) ==
  /\ pc \in WorkflowSites
  /\ caught' = Some(what)
  /\ Log(<<message>>)
  /\ pc' = "exited"
  /\ Exit(1)
  /\ UNCHANGED <<agent, snapshot_created, phase, info, create_ret, update_success,
                 slept, llm_calls, llm_reply, is_healthy, analysis, rollback_calls,
                 rollback_ret, wf_result>>
  /\ UNCHANGED <<executed, lastOut, lastRet, returned>>
  /\ UNCHANGED inputs

\* the user interrupts the process while it is blocked in the workflow
Interrupt == Caught("KeyboardInterrupt", "\nUpdate process interrupted by user")

\* an exception that no method handles is raised in the workflow
UnexpectedError == Caught("Exception", "Unexpected error: [Errno 32] Broken pipe")

\* -------------------------------------------------------------------- Spec
Next ==
  \/ Main
  \/ SnapWhich
  \/ SnapCreate
  \/ SnapBackup
  \/ Probe
  \/ ProbeNetworkPre
  \/ ProbeNetworkPost
  \/ UpdUpdate
  \/ UpdUpgrade
  \/ UpdFull
  \/ UpdAutoremove
  \/ UpdAutoclean
  \/ Sleep
  \/ Llm
  \/ RbWhich
  \/ RbRestore
  \/ RbReinstall
  \/ Interrupt
  \/ UnexpectedError

Spec == Init /\ [][Next]_vars

\* ================================================================= claims
\* how often command c was handed to subprocess.run
Runs(c) == Cardinality({i \in 1..Len(executed) : executed[i] = c})

\* the value of an optional that is set
The(opt) == CHOOSE v \in opt : TRUE

RestoreCommands == {CMD_RESTORE, CMD_REINSTALL}

NoRestoreRun == \A i \in 1..Len(executed) : executed[i] \notin RestoreCommands

UpdateStepsOk ==
  /\ returned["upd_update"] = Some(0)
  /\ returned["upd_upgrade"] = Some(0)
  /\ returned["upd_full"] = Some(0)

\* C1 as stated: rollback_system is invoked if and only if the flag is true
\* and (update_system reported failure or the health check reported
\* unhealthy); in particular never while the flag is false.
C1_RollbackIffFlagAndFailure ==
  (rollback_calls > 0) <=>
    (snapshot_created /\ (update_success = Some(FALSE) \/ is_healthy = Some(FALSE)))

\* C1 amended: rollback_system is invoked (once) if and only if the update
\* failed with the flag true, or the health check reported unhealthy whatever
\* the flag; invoked with the flag false it runs no restore command and
\* returns False.
C1_RollbackInvocation ==
  /\ rollback_calls \in {0, 1}
  /\ (rollback_calls > 0) <=>
       \/ (update_success = Some(FALSE) /\ snapshot_created)
       \/ is_healthy = Some(FALSE)
  /\ (rollback_calls > 0 /\ ~snapshot_created) =>
       /\ update_success = Some(TRUE) /\ is_healthy = Some(FALSE)
       /\ rollback_ret = Some(FALSE)
       /\ NoRestoreRun
       /\ pc = "exited"

\* C1 witness: the health check failed with no snapshot, and rollback_system
\* was called all the same
C1_Witness ==
  /\ pc = "exited"
  /\ ~snapshot_created
  /\ is_healthy = Some(FALSE)
  /\ rollback_calls = 1
  /\ rollback_ret = Some(FALSE)

\* C2: run_update_workflow returns True if and only if the three update steps
\* returned exit code 0 and the health check returned healthy; once rollback
\* ran, the workflow's result is False whatever rollback returned, and a
\* successful run never called rollback.
C2_WorkflowResult ==
  /\ (wf_result = Some(TRUE)) <=> (UpdateStepsOk /\ is_healthy = Some(TRUE))
  /\ (rollback_ret # None) => (wf_result = Some(FALSE) /\ exit_code = Some(1))
  /\ (wf_result = Some(TRUE)) => (rollback_calls = 0 /\ NoRestoreRun)

\* C2 witness: rollback restored the system and the workflow still failed
C2_Witness ==
  /\ rollback_ret = Some(TRUE)
  /\ wf_result = Some(FALSE)
  /\ UpdateStepsOk

\* C3 as stated: the exit code is 0 exactly when the workflow ran and
\* returned True; every other end of the process gives exit code 1.
C3_ExitCode ==
  (exit_code # None) =>
    /\ (exit_code = Some(0)) <=> (wf_result = Some(TRUE))
    /\ (wf_result # Some(TRUE)) => (exit_code = Some(1))

\* C4: when the process is not root, or the key is unset or the placeholder,
\* main ends before anything is done: no command is run, nothing is logged,
\* the agent and its client are not constructed.
C4_NoSideEffects ==
  (euid # ROOT_UID \/ environ_key = None \/ environ_key = Some(PLACEHOLDER)) =>
    /\ pc \in {"start", "exited"}
    /\ ~agent
    /\ executed = <<>>
    /\ update_log = <<>>
    /\ log_file = <<>>
    /\ llm_calls = 0
    /\ slept = 0

\* C4 witness: root, but the key is unset, and main has ended
C4_Witness ==
  /\ pc = "exited"
  /\ euid = ROOT_UID
  /\ environ_key = None

UpdateCommands == <<CMD_UPDATE, CMD_UPGRADE, CMD_FULL, CMD_AUTOREMOVE, CMD_AUTOCLEAN>>

\* the update and cleanup commands run so far, in the order they ran
UpdateRun ==
  SelectSeq(executed, LAMBDA c : \E i \in 1..Len(UpdateCommands) : UpdateCommands[i] = c)

IsPrefix(a, b) == Len(a) <= Len(b) /\ a = SubSeq(b, 1, Len(a))

Last(q) == q[Len(q)]

\* the call site of step i is reached only after step i-1 returned 0
StartedAfterOk(site, before) ==
  (pc = site \/ Runs(CmdAt(site)) > 0) => returned[before] = Some(0)

\* a step that returned a non-zero code ended the phase with failure
Aborts(site) ==
  (returned[site] # None /\ returned[site] # Some(0)) =>
    /\ update_success = Some(FALSE)
    /\ Last(UpdateRun) = CmdAt(site)
    /\ pc \notin {"upd_update", "upd_upgrade", "upd_full", "upd_autoremove",
                  "upd_autoclean"}


\* C5: update_system runs index refresh, upgrade, full upgrade in that order,
\* each only after the earlier ones returned 0; the first non-zero code ends
\* the phase with no later step and no cleanup; the result is True exactly
\* when all three returned 0, whatever autoremove and autoclean returned.
C5_UpdateSequence ==
  /\ IsPrefix(UpdateRun, UpdateCommands)
  /\ StartedAfterOk("upd_upgrade", "upd_update")
  /\ StartedAfterOk("upd_full", "upd_upgrade")
  /\ StartedAfterOk("upd_autoremove", "upd_full")
  /\ Aborts("upd_update") /\ Aborts("upd_upgrade") /\ Aborts("upd_full")
  /\ (update_success # None) => (update_success = Some(TRUE) <=> UpdateStepsOk)
  /\ (Runs(CMD_AUTOCLEAN) > 0) => update_success = Some(TRUE)

\* C5 witness: autoclean has just failed and update_system returned True
C5_Witness ==
  /\ pc = "sleep"
  /\ The(lastRet).code # 0
  /\ update_success = Some(TRUE)

C6_FlagJustified ==
  /\ snapshot_created =>
       (returned["snap_create"] = Some(0) \/ returned["snap_backup"] = Some(0))
  /\ ~snapshot_created =>
       (NoRestoreRun /\ pc \notin {"rb_which", "rb_restore", "rb_reinstall"})

\* C6: snapshot_created is true only if the timeshift create command or the
\* package-list backup command returned 0 earlier in the run; it is never
\* reset to false; no restore command runs while it is false.
C6_SnapshotFlag ==
  /\ []C6_FlagJustified
  /\ [][snapshot_created => snapshot_created']_vars

\* C6 witness: the reinstall ran, the flag set by the package-list backup
C6_Witness ==
  /\ snapshot_created
  /\ returned["snap_backup"] = Some(0)
  /\ Runs(CMD_REINSTALL) = 1

\* C7: after a failed update there is no wait, no post-update probe and no
\* request to the model; rollback is called if the flag is set and not
\* otherwise; the workflow returns False.
C7_UpdateFailurePath ==
  (update_success = Some(FALSE)) =>
    /\ slept = 0 /\ pc # "sleep"
    /\ llm_calls = 0 /\ pc # "llm" /\ llm_reply = None /\ is_healthy = None
    /\ phase = "pre" /\ pc \notin ProbeSites
    /\ \A s \in ProbeSites : Runs(CmdAt(s)) = 1
    /\ snapshot_created => rollback_calls = 1
    /\ ~snapshot_created => (rollback_calls = 0 /\ NoRestoreRun /\ pc = "exited")
    /\ (wf_result # None) => wf_result = Some(FALSE)
    /\ (pc = "exited" /\ caught = None) => (wf_result = Some(FALSE) /\ exit_code = Some(1))

\* C7 witness: the update failed with no snapshot and the workflow returned
C7_Witness ==
  /\ update_success = Some(FALSE)
  /\ ~snapshot_created
  /\ wf_result = Some(FALSE)

\* C8 as stated: when llm.invoke fails, the verdict is healthy if and only if
\* the failed-service list is empty, the network probe succeeded and the
\* broken-package summary equals the "None" sentinel.
C8_FallbackRule ==
  [][(pc = "llm" /\ llm_reply' # None /\ ~The(llm_reply').ok) =>
       (is_healthy' = Some(TRUE) <=>
          /\ info["failed_services"] = <<>>
          /\ info["network"] = "OK"
          /\ info["broken_packages"] = NONE_SENTINEL)]_vars

\* the contents llm.invoke may return
ReplyContents == {r.content : r \in {x \in LlmReplies : x.ok}}

\* a is the letter b of the marker, in either case
SameLetter(a, b) ==
  a = b \/ \E i \in 1..Len(LOWER) : Char(LOWER, i) = a /\ Char(UPPER, i) = b

\* the marker stands in the text, in any mix of cases
HasMarker(text) ==
  \E i \in 1..(Len(text) - Len(MARKER) + 1) :
    \A j \in 1..Len(MARKER) : SameLetter(Char(text, i + j - 1), Char(MARKER, j))

MarkerIn == [c \in ReplyContents |-> HasMarker(c)]

\* C9: when llm.invoke returns a response, the verdict is healthy exactly
\* when the response holds the marker in any case, and the response is the
\* report; the fallback decides if and only if llm.invoke failed, and then
\* too perform_health_checks returns a verdict.
C9_LlmVerdict ==
  (llm_reply # None) =>
    /\ is_healthy # None /\ analysis # None
    /\ The(llm_reply).ok =>
         /\ is_healthy = Some(MarkerIn[The(llm_reply).content])
         /\ analysis = Some(The(llm_reply).content)
    /\ (analysis = Some(FALLBACK_REPORT)) <=> ~The(llm_reply).ok

\* C9 witness: the response holds the marker in mixed case, verdict healthy
C9_Witness ==
  /\ llm_reply # None
  /\ The(llm_reply).ok
  /\ ~Contains(MARKER, The(llm_reply).content)
  /\ is_healthy = Some(TRUE)

\* the "Executing: ..." entries of the log
ExecutingEntries ==
  {i \in 1..Len(update_log) : StartsWith(update_log[i], log_entry("Executing: "))}

\* C10: run_command returns 0 exactly when the command succeeded, the
\* command's own code when it failed, and (-1, "", marker) when it timed out
\* or could not be run; a call hands the command to subprocess.run at most
\* once.
C10_RunCommand ==
  /\ (Len(executed) > 0) <=> (lastRet # None)
  /\ (lastRet # None) =>
       LET o == The(lastOut)
           r == The(lastRet)
       IN  /\ (r.code = 0) <=> Succeeded(o)
           /\ (o.launched /\ o.dur <= TIMEOUT) =>
                (r.code = o.code /\ r.out = o.out /\ r.err = o.err)
           /\ (~o.launched \/ o.dur > TIMEOUT) =>
                (r.code = SENTINEL /\ r.out = "" /\ r.err # "")
           /\ (o.launched /\ o.dur > TIMEOUT) => r.err = "Command timeout"
  /\ Len(executed) <= Cardinality(ExecutingEntries)
  /\ Cardinality(ExecutingEntries) <= Len(executed) + 1

\* C10 witness: the last command overran the timeout
C10_Witness ==
  /\ lastRet # None
  /\ The(lastOut).launched
  /\ The(lastOut).dur > TIMEOUT
  /\ The(lastRet).code = SENTINEL

\* ------------------------------------------------------------------ C11
\* C11: after any sequence of log calls the log file holds exactly one line
\* per logged event, in call order, and each line is the timestamped entry
\* of its event: no entry is dropped and none spreads over several lines.
C11_OneLinePerEvent ==
  /\ Len(log_file) = Len(update_log)
  /\ \A i \in 1..Len(log_file) :
       /\ StartsWith(log_file[i], TIMESTAMP)
       /\ log_file[i] = update_log[i]

\* ------------------------------------------------------------------ C12
\* the entry the top-level handler writes for a user interrupt
INTERRUPT_ENTRY == log_entry("\nUpdate process interrupted by user")

\* C12: a user interrupt can arrive wherever the workflow is blocked (in a
\* shell command, in the wait, in the language-model request); it is caught
\* once: the step that catches it writes exactly one log entry, executes no
\* command, starts no rollback and ends the process with exit code 1, and
\* afterwards no command is executed and nothing more is logged.
C12_Interrupt ==
  /\ [](pc \in WorkflowSites => ENABLED Interrupt)
  /\ [](caught = Some("KeyboardInterrupt") => (pc = "exited" /\ exit_code = Some(1)))
  /\ [][(caught = None /\ caught' = Some("KeyboardInterrupt")) =>
          /\ update_log' = Append(update_log, INTERRUPT_ENTRY)
          /\ executed' = executed
          /\ rollback_calls' = rollback_calls
          /\ snapshot_created' = snapshot_created
          /\ pc' = "exited"
          /\ exit_code' = Some(1)]_vars
  /\ [][caught # None =>
          (executed' = executed /\ update_log' = update_log /\ caught' = caught)]_vars

\* C12 witness: with a snapshot in place, the interrupt arrived while the
\* upgrade command was running; the process ended with no restore command
C12_Witness ==
  /\ caught = Some("KeyboardInterrupt")
  /\ snapshot_created
  /\ Runs(CMD_UPDATE) = 1
  /\ Runs(CMD_UPGRADE) = 0
  /\ Last(update_log) = INTERRUPT_ENTRY
  /\ update_log[Len(update_log) - 1] = log_entry("Executing: " \o CMD_UPGRADE)
  /\ NoRestoreRun
  /\ rollback_calls = 0
  /\ exit_code = Some(1)

\* ------------------------------------------------------------------ C13
\* command c was handed to run_command: its "Executing:" entry is in the log
Issued(c) == \E i \in 1..Len(update_log) : update_log[i] = log_entry("Executing: " \o c)

\* the call at a site returned a non-zero code
Failed(site) == returned[site] # None /\ returned[site] # Some(0)

\* the call at a site has begun (it is running or it has returned)
Begun(site) == pc = site \/ returned[site] # None

\* C13: rollback_system runs commands only when the flag is true; it then
\* looks for timeshift and, when present, runs its restore before anything
\* else; the reinstall fallback is executed exactly when timeshift is absent
\* or its restore failed; the value returned is true exactly when the last
\* restore command executed returned 0, and false when the flag is false.
C13_Rollback ==
  /\ (Begun("rb_which") \/ Begun("rb_restore") \/ Begun("rb_reinstall")) =>
       (snapshot_created /\ rollback_calls = 1)
  /\ (rollback_calls > 0 /\ snapshot_created /\ caught = None) => Begun("rb_which")
  /\ Issued(CMD_RESTORE) <=> (returned["rb_which"] = Some(0))
  /\ Issued(CMD_REINSTALL) <=> (Failed("rb_which") \/ Failed("rb_restore"))
  /\ Begun("rb_reinstall") => Issued(CMD_REINSTALL)
  /\ Begun("rb_restore") => Issued(CMD_RESTORE)
  /\ (returned["rb_restore"] = Some(0) \/ returned["rb_reinstall"] # None)
       => rollback_ret # None
  /\ rollback_ret # None =>
       /\ rollback_calls = 1
       /\ ~snapshot_created => (rollback_ret = Some(FALSE) /\ NoRestoreRun)
       /\ snapshot_created =>
            IF returned["rb_reinstall"] # None
            THEN rollback_ret = Some(returned["rb_reinstall"] = Some(0))
            ELSE /\ returned["rb_restore"] = Some(0)
                 /\ rollback_ret = Some(TRUE)

\* C13 witness: timeshift was present, its restore failed, the reinstall
\* fallback ran and returned 0, and rollback_system returned true
C13_Witness ==
  /\ returned["rb_which"] = Some(0)
  /\ Failed("rb_restore")
  /\ returned["rb_reinstall"] = Some(0)
  /\ Runs(CMD_RESTORE) = 1
  /\ Runs(CMD_REINSTALL) = 1
  /\ rollback_ret = Some(TRUE)

\* ------------------------------------------------------------------ C14
\* message m was logged
Logged(m) == \E i \in 1..Len(update_log) : update_log[i] = log_entry(m)

\* C14: create_snapshot hands the package-list backup command to run_command
\* exactly when `which timeshift` or the timeshift create command returned a
\* non-zero code; it returns true exactly when it set the flag; when the
\* backup fails too it returns false with the flag unset and both warnings
\* logged, and the run goes on: the first probe is started in the same step
\* and, unless an exception ends it, the run does not end before the update
\* phase has begun.
C14_CreateSnapshot ==
  /\ Issued(CMD_BACKUP) <=> (Failed("snap_which") \/ Failed("snap_create"))
  /\ Begun("snap_backup") => Issued(CMD_BACKUP)
  /\ Issued(CMD_CREATE) <=> (returned["snap_which"] = Some(0))
  /\ (create_ret # None) <=>
       (returned["snap_create"] = Some(0) \/ returned["snap_backup"] # None)
  /\ create_ret = None => ~snapshot_created
  /\ create_ret # None => create_ret = Some(snapshot_created)
  /\ create_ret = Some(FALSE) =>
       /\ Failed("snap_backup")
       /\ Logged("WARNING: Could not create snapshot or backup")
       /\ Logged("WARNING: Proceeding without snapshot (risky)")
       /\ Issued(CMD_OS)
       /\ (pc = "exited" /\ caught = None) => Issued(CMD_UPDATE)

\* C14 witness: timeshift create and the backup both failed, the flag is
\* unset, and the run has reached the update phase
C14_Witness ==
  /\ returned["snap_which"] = Some(0)
  /\ Failed("snap_create")
  /\ Failed("snap_backup")
  /\ create_ret = Some(FALSE)
  /\ ~snapshot_created
  /\ Logged("WARNING: Could not create snapshot or backup")
  /\ pc = "upd_upgrade"
  /\ Runs(CMD_NETWORK) = 1

\* ------------------------------------------------------------------ C15
\* the prefix of the entries run_command writes before it runs a command
EXECUTING == log_entry("Executing: ")

\* the command text an "Executing:" entry names
CommandOf(entry) == SubSeq(entry, Len(EXECUTING) + 1, Len(entry))

\* the commands named by the "Executing:" entries of the log, in log order
LoggedCommands ==
  LET named == SelectSeq(update_log, LAMBDA e : StartsWith(e, EXECUTING))
  IN  [i \in 1..Len(named) |-> CommandOf(named[i])]

\* C15: the commands executed so far are, in order and with their literal
\* text, the commands named by the "Executing:" entries of the log, except
\* that the last logged command may not have been executed yet; a command is
\* executed only when its entry is already in the log.
C15_LoggedBeforeExecuted ==
  /\ [](/\ IsPrefix(executed, LoggedCommands)
        /\ Len(LoggedCommands) <= Len(executed) + 1
        /\ pc \in CommandSites =>
             (Len(LoggedCommands) = Len(executed) + 1 /\ Last(LoggedCommands) = CmdAt(pc)))
  /\ [][executed' # executed =>
          /\ Len(LoggedCommands) = Len(executed) + 1
          /\ executed' = Append(executed, Last(LoggedCommands))]_vars

\* C15 witness: the upgrade command is logged and running, not yet executed
C15_Witness ==
  /\ pc = "upd_upgrade"
  /\ Len(executed) > 0
  /\ Last(executed) = CMD_UPDATE
  /\ LoggedCommands = Append(executed, CMD_UPGRADE)

\* ------------------------------------------------------------------ C16
\* the blocking points of a run: the start of main and the external calls
Sites == {"start"} \cup WorkflowSites

\* the run leaves the point it is blocked at: main starts, or the external
\* call it waits for returns or raises
Returns == pc \in Sites /\ pc' \in (Sites \cup {"exited"}) \ {pc}

\* every external call returns: the run does not stay blocked forever
FairSpec == Spec /\ WF_pc(Returns)

\* the states of the workflow, in their order; SUCCESS and ROLLING_BACK are
\* the two alternatives after HEALTH_CHECK
ORDER == <<"INIT", "SNAPSHOT", "PRE_INFO", "UPDATING", "STABILIZING",
           "HEALTH_CHECK", "ROLLING_BACK", "DONE">>

\* the state of the workflow the run is in. SUCCESS is passed inside the step
\* that receives the verdict (lines 283-286 only log and return), so no
\* blocking point lies in it.
Stage ==
  CASE pc = "start" -> "INIT"
    [] pc \in {"snap_which", "snap_create", "snap_backup"} -> "SNAPSHOT"
    [] pc \in ProbeSites /\ phase = "pre" -> "PRE_INFO"
    [] pc \in {"upd_update", "upd_upgrade", "upd_full", "upd_autoremove",
               "upd_autoclean"} -> "UPDATING"
    [] pc = "sleep" -> "STABILIZING"
    [] (pc \in ProbeSites /\ phase = "post") \/ pc = "llm" -> "HEALTH_CHECK"
    [] pc \in {"rb_which", "rb_restore", "rb_reinstall"} -> "ROLLING_BACK"
    [] pc = "exited" -> "DONE"

\* the position of a state in the order
Rank(s) == CHOOSE i \in 1..Len(ORDER) : ORDER[i] = s

\* the transitions between different states of the workflow: to the next
\* state, to ROLLING_BACK from the two states that can fail, or to DONE
Transitions ==
  {<<ORDER[i], ORDER[i + 1]>> : i \in 1..(Len(ORDER) - 1)}
    \cup {<<"UPDATING", "ROLLING_BACK">>}
    \cup {<<ORDER[i], "DONE">> : i \in 1..(Len(ORDER) - 1)}

\* C16: the run moves through the states of the workflow in their fixed order
\* and never returns to a state it has left; a step inside a state executes
\* one more command; apt update, apt upgrade, apt full-upgrade and the
\* language-model request each happen at most once; and when every external
\* call returns the run reaches DONE.
C16_SinglePass ==
  /\ [](/\ Runs(CMD_UPDATE) <= 1 /\ Runs(CMD_UPGRADE) <= 1 /\ Runs(CMD_FULL) <= 1
        /\ llm_calls <= 1
        /\ pc = "upd_update" => Runs(CMD_UPDATE) = 0
        /\ pc = "upd_upgrade" => Runs(CMD_UPGRADE) = 0
        /\ pc = "upd_full" => Runs(CMD_FULL) = 0
        /\ pc = "llm" => llm_calls = 0)
  /\ [][IF Stage' = Stage
        THEN Stage # "DONE" /\ Len(executed') = Len(executed) + 1
        ELSE <<Stage, Stage'>> \in Transitions /\ Rank(Stage') > Rank(Stage)]_vars
  /\ [][(wf_result' = Some(TRUE) /\ wf_result = None) => Stage = "HEALTH_CHECK"]_vars
  /\ <>(Stage = "DONE")

\* C16 witness: a run that passed through every state up to HEALTH_CHECK,
\* rolled back and is done, each update command and the request made once
C16_Witness ==
  /\ Stage = "DONE"
  /\ caught = None
  /\ Runs(CMD_UPDATE) = 1 /\ Runs(CMD_UPGRADE) = 1 /\ Runs(CMD_FULL) = 1
  /\ llm_calls = 1
  /\ slept = STABILIZE_SECONDS
  /\ is_healthy = Some(FALSE)
  /\ Runs(CMD_RESTORE) = 1

\* ------------------------------------------------------------------ C17
\* the commands of the eight probes
ProbeCommands == {CmdAt(s) : s \in ProbeSites}

\* the entry that logs a pre-update info with all eight keys
PRE_INFO_ENTRY == log_entry("Pre-update info: {" \o JsonLines(INFO_KEYS) \o "\n}")

\* the entry that logs the first command of update_system
UPDATE_ENTRY == log_entry("Executing: " \o CMD_UPDATE)

\* the position of the first log entry equal to e, or 0
FirstEntry(e) ==
  LET at == {i \in 1..Len(update_log) : update_log[i] = e}
  IN  IF at = {} THEN 0 ELSE CHOOSE i \in at : \A j \in at : i <= j

\* one of the five commands of update_system was handed to run_command: it
\* is running or it has returned
Mutating ==
  \/ pc \in {"upd_update", "upd_upgrade", "upd_full", "upd_autoremove", "upd_autoclean"}
  \/ \E i \in 1..Len(executed) : \E k \in 1..Len(UpdateCommands) :
        executed[i] = UpdateCommands[k]

\* C17: a command of update_system is issued only after create_snapshot
\* returned, the eight probes of the pre-update collection ran and the
\* pre-update info was logged; the wait starts only after update_system
\* returned true (its three checked commands returned 0 and the two cleanup
\* commands ran); the post-update probes and the analyzer run only after the
\* 30-second wait returned.
C17_Ordering ==
  /\ Mutating =>
       /\ (pc = "upd_update" \/ Runs(CMD_UPDATE) = 1)
       /\ create_ret # None
       /\ \A c \in ProbeCommands : Runs(c) >= 1
       /\ FirstEntry(PRE_INFO_ENTRY) > 0
       /\ FirstEntry(PRE_INFO_ENTRY) < FirstEntry(UPDATE_ENTRY)
       /\ \A i \in 1..Len(executed) :
            executed[i] = CMD_UPDATE =>
              ProbeCommands \subseteq {executed[j] : j \in 1..(i - 1)}
  /\ (pc = "sleep" \/ slept > 0) =>
       /\ update_success = Some(TRUE)
       /\ UpdateStepsOk
       /\ Runs(CMD_AUTOREMOVE) = 1 /\ Runs(CMD_AUTOCLEAN) = 1
  /\ pc = "sleep" => (slept = 0 /\ phase = "pre")
  /\ slept \in {0, STABILIZE_SECONDS}
  /\ (phase = "post" \/ pc = "llm" \/ llm_calls > 0 \/ \E c \in ProbeCommands : Runs(c) > 1)
       => slept = STABILIZE_SECONDS
  /\ (pc = "llm" \/ llm_calls > 0) => \A c \in ProbeCommands : Runs(c) = 2

\* C17 witness: the analyzer is asked after the update commands, the wait
\* and the second round of probes
C17_Witness ==
  /\ pc = "llm"
  /\ Mutating
  /\ slept = STABILIZE_SECONDS
  /\ update_success = Some(TRUE)
  /\ \A c \in ProbeCommands : Runs(c) = 2
  /\ create_ret = Some(FALSE)

\* ------------------------------------------------------------------ C18
\* C18: whenever the reinstall fallback of rollback_system is executed (it
\* is running or it has returned), the package-list backup command of
\* create_snapshot returned 0 earlier in the run, so that the file the
\* reinstall reads was written by this run.
C18_ReinstallReadsOwnBackup ==
  (Begun("rb_reinstall") \/ Runs(CMD_REINSTALL) > 0) => returned["snap_backup"] = Some(0)

\* ------------------------------------------------------------------ C19
\* the ending of the name of a service unit
UNIT_SUFFIX == ".service"

\* str.endswith(suffix)
EndsWith(s, suffix) ==
  Len(s) >= Len(suffix) /\ SubSeq(s, Len(s) - Len(suffix) + 1, Len(s)) = suffix

\* the words of a line
RECURSIVE Words(_)
Words(s) ==
  LET t == LStrip(s)
      i == FirstSpace(t)
  IN  IF t = "" THEN <<>>
      ELSE IF i = 0 THEN <<t>>
      ELSE <<SubSeq(t, 1, i - 1)>> \o Words(SubSeq(t, i + 1, Len(t)))

\* the unit names the lines list, in order
RECURSIVE UnitsOf(_)
UnitsOf(lines) ==
  IF lines = <<>> THEN <<>>
  ELSE SelectSeq(Words(Head(lines)), LAMBDA w : EndsWith(w, UNIT_SUFFIX))
       \o UnitsOf(Tail(lines))

\* the failed service units an output of the failed-services probe lists
ListedUnits(out) == UnitsOf(SplitLines(out))

\* C19: collect_system_info runs every probe whatever the earlier probes
\* returned, and the failed_services entry it stores holds exactly the names
\* of the service units listed in the output of the failed-services probe;
\* in particular it is empty when the output is empty or holds only the
\* header, blank lines and the summary line.
C19_FailedServices ==
  /\ (Mutating \/ pc = "llm") => \A c \in ProbeCommands : Runs(c) >= 1
  /\ pc = "probe_broken" =>
       /\ "failed_services" \in DOMAIN info
       /\ info["failed_services"] = ListedUnits(The(lastOut).out)

====
